---- MODULE Spec2Model ----
(***************************************************************************)
(* build_eco_tips_pdf (src/app.py:1196-1454): the report document builder. *)
(* One call of the function is modelled as a state machine: pc is the      *)
(* position in the function body, y the layout cursor, canvas the sequence *)
(* of operations sent to the reportlab canvas, page its page number.       *)
(* Lengths are integers in units of 0.01 cm (the source multiplies cm      *)
(* literals with at most two decimals by reportlab's cm).                  *)
(*                                                                         *)
(* Spec is one call of the builder; SpecTwice the builder called twice     *)
(* with the same arguments; SpecPar the chart steps of two calls running   *)
(* in parallel; SpecApp one browser session of main() (src/app.py:346);    *)
(* SpecTip the loop of main() that waits for the eco tip (899-925).        *)
(***************************************************************************)
EXTENDS Integers, Sequences, FiniteSets, TLC

VARIABLES args, pc, y, page, fill, canvas, i, y0, y_img, result,
          consumed, surface_fault, failed_chart, pie_failed, stamp

\* the caller of the builder: the wall clock the canvas reads when the
\* document is saved, and what an earlier call with the same arguments
\* returned
VARIABLES clock, first

\* two calls of the builder running in parallel (one thread per session)
\* and the state of matplotlib.pyplot they share: per call the position in
\* the chart steps, the chart being made and the images produced; the
\* figures pyplot holds (the last one is the current figure) and those a
\* tight_layout has been applied to
VARIABLES ppc, pj, imgs, figs, laid

\* main() (src/app.py:346-1194), one browser session: st.session_state, the
\* density parameter of the URL, history.csv, the date picked, and of the
\* last run of the script: the event that started it, the message of the
\* save panel and whether it ended in st.rerun()
VARIABLES session, url_density, history, selected_date, last_event, shown,
          rerun

\* the density and the inputs the session had when the Demo mode checkbox
\* was last ticked (kept to state what "Exit Demo Mode" has to bring back)
VARIABLES at_entry

\* the wait for the eco tip (src/app.py:899-925): the position of the main
\* thread in the polling loop, the time since start_time in units of 0.01 s,
\* the spinner threshold, the future of generate_tip and the time at which
\* it completed, the flag and the variable of the loop, and what the loop
\* has done so far (the spinner displayed, tip assigned)
VARIABLES tpc, tnow, threshold, fut, fut_at, spinner_shown, tip, effects

builder == <<args, pc, y, page, fill, canvas, i, y0, y_img, result,
             consumed, surface_fault, failed_chart, pie_failed, stamp>>
caller == <<clock, first>>
pyplot == <<ppc, pj, imgs, figs, laid>>
app == <<session, url_density, history, selected_date, last_event, shown,
         rerun, at_entry>>
tipjob == <<tpc, tnow, threshold, fut, fut_at, spinner_shown, tip, effects>>

\* what a step of one call of the builder leaves alone
others == <<caller, pyplot, app, tipjob>>

vars == <<builder, caller, pyplot, app, tipjob>>

-----------------------------------------------------------------------------
(* Bounds of the model *)
MaxLines == 30      \* most lines simpleSplit yields for the summary / the tip
MaxSpark == 8       \* most entries of spark_data
MaxAct == 5         \* most entries of per_activity
MaxTime == 20       \* the wait for the tip is followed for 0.20 s
MaxThreshold == 10  \* largest spinner threshold, 0.10 s

-----------------------------------------------------------------------------
(* Program constants, in 0.01 cm *)
PageHeight == 2100          \* landscape(A4)[1] = 210 mm
PageWidth == 2970           \* landscape(A4)[0] = 297 mm
TitleGap == 40              \* y -= 0.4*cm
MetaGap == 80               \* y -= 0.8*cm
HeadGap == 60               \* y -= 0.6*cm after a section heading
KpiLineH == 48              \* y -= 0.48*cm
TextLineH == 50             \* y -= 0.5*cm (summary and tip lines)
SectionGap == 20            \* y -= 0.2*cm before tip / category / activity
ListLineH == 45             \* y -= 0.45*cm (category and activity lines)
LowWater == 200             \* bottom_m + 2*cm
CatLowWater == 600          \* bottom_m + 6*cm
Cols == 3                   \* cols = 3
CellW == 800                \* cell_w = 8*cm
CellH == 300                \* cell_h = 3*cm
CellGap == 50               \* + 0.5*cm between cells
GridLowWater == 150         \* bottom_m + 1.5*cm
GridTopGap == 100           \* height - top_m - 1*cm
GridEndGap == 80            \* y = y_img - cell_h - 0.8*cm
PieW == 1000                \* img_width = 10*cm
PieH == 700                 \* img_height = 7*cm
PieGap == 50                \* y + 0.5*cm, y -= img_height + 0.5*cm
LogoSize == 220             \* 2.2*cm
LogoDrop == 50              \* y - 0.5*cm
TitleIndent == 250          \* left + 2.5*cm
BadgeTextX == 110           \* left + 1.1*cm
WrapMargin == 400           \* simpleSplit(..., width - 4*cm)
FooterDrop == 40            \* bottom_m - 0.4*cm
DefaultSide == 200          \* margins_cm "side" default 2.0
DefaultTop == 200           \* margins_cm "top" default 2.0
DefaultBottom == 180        \* margins_cm "bottom" default 1.8
MinMargin == 100            \* number_input min_value=1.0
MaxMargin == 300            \* number_input max_value=3.0

-----------------------------------------------------------------------------
(* Values *)
NoneVal == <<>>                     \* Python None (an absent optional value)
Some(x) == <<x>>
NoColour == ""                      \* None or "" : falsy colour argument
GoodHex == "#2563eb"                \* a colour HexColor and matplotlib accept
BadHex == "nothex"                  \* a string neither accepts
Black == "#000000"                  \* setFillColorRGB(0, 0, 0), the canvas default
White == "#ffffff"                  \* setFillColorRGB(1, 1, 1)
KpiLabels == <<"today_total", "yesterday_total", "delta_pct", "streak_days">>

\* HexColor(val) returns a colour for a hex string and raises otherwise
HexColorRaises(val) == val # GoodHex

\* matplotlib raises ValueError when given a colour string it cannot parse
MplColourRaises(val) == val \notin {GoodHex, Black}

-----------------------------------------------------------------------------
(* Arguments of one call *)

\* per_category as the spec's scenario gives it (values in 0.001 kg)
CatScenario ==
    << [k |-> "Energy", v |-> 12500], [k |-> "Transport", v |-> 3000],
       [k |-> "Meals", v |-> 1500] >>
\* the same categories in another insertion order, with a tie
CatUnsorted ==
    << [k |-> "Meals", v |-> 1504], [k |-> "Energy", v |-> 12500],
       [k |-> "Transport", v |-> 3000], [k |-> "Waste", v |-> 3000] >>
\* nothing logged: every category is 0
CatZero ==
    << [k |-> "Energy", v |-> 0], [k |-> "Transport", v |-> 0],
       [k |-> "Meals", v |-> 0] >>
CategoryInputs == { <<>>, CatScenario, CatUnsorted, CatZero }

\* per_activity with n entries, values not in order
ActMap(n) == [j \in 1..n |-> [k |-> j, v |-> ((j * 700) % 1900) + 10]]
ActivityInputs == { ActMap(0), ActMap(MaxAct) }

LineCounts == {0, 1, MaxLines}
MarginInputs == { <<DefaultTop, DefaultBottom>>, <<MinMargin, MinMargin>>,
                  <<MaxMargin, MaxMargin>> }
KpiInputs == { [given |-> FALSE, keys |-> {}],
               [given |-> TRUE, keys |-> {"today_total", "delta_pct"}],
               [given |-> TRUE, keys |-> {KpiLabels[j] : j \in 1..4}] }
ColourInputs == {NoColour, GoodHex, BadHex}
LogoInputs == {"none", "png", "garbage"}  \* no bytes / an image / not an image

DefaultArgs ==
    [ reportlab_ok |-> TRUE, mpl_ok |-> TRUE,
      side_m |-> DefaultSide, top_m |-> DefaultTop, bottom_m |-> DefaultBottom,
      kpis |-> [given |-> TRUE, keys |-> {KpiLabels[j] : j \in 1..4}],
      include_sparklines |-> TRUE, spark_data |-> 2,
      summary_lines |-> 1, tip_lines |-> 1,
      per_category |-> CatScenario, include_pie |-> TRUE,
      per_activity |-> ActMap(2),
      primary_color |-> NoColour, text_hex |-> NoColour,
      chart_bg_hex |-> NoColour, logo_bytes |-> "none", footer_text |-> "" ]

\* calls that vary what decides the layout, with the default theme
LayoutArgs ==
    { [DefaultArgs EXCEPT !.mpl_ok = m, !.top_m = mg[1], !.bottom_m = mg[2],
                          !.kpis = kp, !.include_sparklines = sp[1],
                          !.spark_data = sp[2], !.summary_lines = ns,
                          !.tip_lines = nt, !.per_category = pcat,
                          !.include_pie = ip, !.per_activity = pa] :
        m \in BOOLEAN, mg \in MarginInputs, kp \in KpiInputs,
        sp \in {<<TRUE, 0>>, <<TRUE, MaxSpark>>, <<FALSE, 2>>},
        ns \in LineCounts, nt \in {0, MaxLines}, pcat \in CategoryInputs,
        ip \in BOOLEAN, pa \in ActivityInputs }

\* calls that vary the theme, the logo and the libraries, on two layouts
ThemeArgs ==
    { [DefaultArgs EXCEPT !.reportlab_ok = r, !.mpl_ok = m,
                          !.primary_color = c1, !.text_hex = c2,
                          !.chart_bg_hex = c3, !.logo_bytes = lg,
                          !.footer_text = ft, !.summary_lines = ns] :
        r \in BOOLEAN, m \in BOOLEAN, c1 \in ColourInputs, c2 \in ColourInputs,
        c3 \in ColourInputs, lg \in LogoInputs, ft \in {"", "footer"},
        ns \in {1, MaxLines} }

\* calls that vary the side margin over its range, with a full grid row
SideArgs ==
    { [DefaultArgs EXCEPT !.side_m = sm, !.spark_data = Cols] :
        sm \in {MinMargin, DefaultSide, MaxMargin} }

Calls == LayoutArgs \cup ThemeArgs \cup SideArgs

\* the input fields of the form the model follows: one that the demo
\* values set and one that they do not (of the 20 keys of lines 441-466)
Keys == {"bus_km", "diesel_liter"}
Dates == {1, 2}                     \* the dates the date picker is set to
Densities == {"Compact", "Comfy"}

\* a session in which nothing has been done yet: the first run of the
\* script has set the density (lines 349-358) and written it to the URL
\* (line 669)
FreshSession(d) ==
    [ density |-> d, pending_density |-> NoneVal,
      demo_mode |-> FALSE, demo_mode_applied |-> FALSE,
      demo_snapshot |-> NoneVal, pending_values |-> NoneVal,
      pending_demo_off |-> FALSE, tips_autogen |-> FALSE,
      inputs |-> [k \in Keys |-> 0] ]

AppInit ==
    /\ \E d \in Densities : session = FreshSession(d) /\ url_density = d
    /\ history = <<>>
    /\ selected_date = 1
    /\ last_event = "load"
    /\ shown = ""
    /\ rerun = FALSE
    /\ at_entry = NoneVal

\* the app is not part of the run
AppIdle ==
    /\ session = FreshSession("Compact") /\ url_density = "Compact"
    /\ history = <<>>
    /\ selected_date = 1
    /\ last_event = "load"
    /\ shown = ""
    /\ rerun = FALSE
    /\ at_entry = NoneVal

\* no tip is being waited for
TipIdle ==
    /\ tpc = "idle" /\ tnow = 0 /\ threshold = 0
    /\ fut = "none" /\ fut_at = 0
    /\ spinner_shown = FALSE /\ tip = NoneVal /\ effects = <<>>

\* the parallel calls
Procs == {1, 2}

\* no parallel calls are running and pyplot holds no figure
PyplotIdle ==
    /\ ppc = [p \in Procs |-> "done"]
    /\ pj = [p \in Procs |-> 0]
    /\ imgs = [p \in Procs |-> <<>>]
    /\ figs = <<>>
    /\ laid = {}

Init ==
    /\ args \in Calls
    /\ pc = "start"
    /\ y = 0
    /\ page = 1
    /\ fill = Black
    /\ canvas = <<>>
    /\ i = 0
    /\ y0 = 0
    /\ y_img = 0
    /\ result = [bytes |-> NoneVal, err |-> ""]
    /\ consumed = 0
    /\ surface_fault = FALSE
    /\ failed_chart = 0
    /\ pie_failed = FALSE
    /\ stamp = NoneVal
    /\ clock = 0
    /\ first = NoneVal
    /\ PyplotIdle
    /\ AppIdle
    /\ TipIdle

-----------------------------------------------------------------------------
(* Geometry of the call *)
height == PageHeight
left == args.side_m
right == PageWidth - args.side_m
Top == height - args.top_m              \* y = height - top_m
Avail == height - args.top_m - args.bottom_m

Op(kind, sec, item, x, yy, h, pg, fl) ==
    [op |-> kind, sec |-> sec, item |-> item, x |-> x, y |-> yy, h |-> h,
     page |-> pg, fill |-> fl]

\* try: if text_hex: c.setFillColor(HexColor(text_hex))
\* except: c.setFillColorRGB(0, 0, 0)
TextFillOrBlack(fl) ==
    IF args.text_hex = NoColour THEN fl
    ELSE IF HexColorRaises(args.text_hex) THEN Black ELSE args.text_hex

\* _draw_footer: footer text and page number, below the bottom margin
DrawFooter(cv, pg, fl) ==
    IF args.footer_text # ""
    THEN cv \o << Op("text", "footer", <<"footer">>, left,
                     args.bottom_m - FooterDrop, 0, pg, TextFillOrBlack(fl)),
                  Op("text", "footer", <<"page", pg>>, right,
                     args.bottom_m - FooterDrop, 0, pg, TextFillOrBlack(fl)) >>
    ELSE cv

\* a page ended without its footer
ShowPage_NoFooter(cv, pg, fl) ==
    Append(cv, Op("showPage", "page", <<"end">>, 0, 0, 0, pg, Black))

\* _show_page: footer, then c.showPage() ends the page
ShowPage(cv, pg, fl) ==
    Append(DrawFooter(cv, pg, fl),
           Op("showPage", "page", <<"end">>, 0, 0, 0, pg, Black))

\* fill colour after _show_page: showPage resets it, then text_hex is set again
FillAfterShowPage == TextFillOrBlack(Black)

-----------------------------------------------------------------------------
(* The call, step by step *)

\* the handler handing out what has been built so far
OnException_Partial ==
    [bytes |-> Some(canvas), err |-> "Failed to build PDF"]

\* the value build_eco_tips_pdf returns from "except Exception as e"
OnException == [bytes |-> NoneVal, err |-> "Failed to build PDF"]

\* the locals of the call are gone once it has returned through the handler
Discard ==
    /\ y' = 0 /\ page' = 1 /\ fill' = Black /\ canvas' = <<>>
    /\ i' = 0 /\ y0' = 0 /\ y_img' = 0 /\ consumed' = 0

\* matplotlib treated like reportlab: its absence ends the call with an error
Begin_MplRequired ==
    /\ pc = "start"
    /\ IF args.reportlab_ok /\ args.mpl_ok
       THEN /\ pc' = "title"
            /\ fill' = TextFillOrBlack(Black)
            /\ UNCHANGED result
       ELSE /\ pc' = "done"
            /\ result' = [bytes |-> NoneVal, err |-> "ReportLab not available"]
            /\ UNCHANGED fill
    /\ UNCHANGED <<others, stamp,
                   args, y, page, canvas, i, y0, y_img, consumed,
                   surface_fault, failed_chart, pie_failed>>

\* lines 1200-1234: the imports, the canvas, the margins, the body colour
Begin ==
    /\ pc = "start"
    /\ IF args.reportlab_ok
       THEN /\ pc' = "title"
            /\ fill' = TextFillOrBlack(Black)
            /\ UNCHANGED result
       ELSE /\ pc' = "done"
            /\ result' = [bytes |-> NoneVal, err |-> "ReportLab not available"]
            /\ UNCHANGED fill
    /\ UNCHANGED <<others, stamp,
                   args, y, page, canvas, i, y0, y_img, consumed,
                   surface_fault, failed_chart, pie_failed>>

\* fill colour the title is set in (lines 1270-1274): primary_color if valid
TitleFill ==
    IF args.primary_color # NoColour /\ ~HexColorRaises(args.primary_color)
    THEN args.primary_color ELSE fill

\* lines 1282-1292: the fallback badge, drawn inside its own try
Badge(yy) ==
    IF args.primary_color # NoColour /\ HexColorRaises(args.primary_color)
    THEN <<>>
    ELSE << Op("rect", "title", <<"badge">>, left, yy - LogoDrop, LogoSize,
               page, TitleFill),
            Op("text", "title", <<"initials">>, left + BadgeTextX,
               yy + LogoDrop, 0, page, White) >>

\* lines 1275-1297: logo and title, or badge and title, or the title alone
Header_LogoSwallowed(yy) ==
    IF args.logo_bytes = "png"
    THEN << Op("image", "title", <<"logo">>, left, yy - LogoDrop, LogoSize,
               page, TitleFill),
            Op("text", "title", <<"title">>, left + TitleIndent, yy, 0,
               page, TitleFill) >>
    ELSE IF args.logo_bytes = "garbage"
    THEN <<>>
    ELSE Badge(yy) \o
         << Op("text", "title", <<"title">>, left + TitleIndent, yy, 0,
               page, Black) >>
Header(yy) ==
    IF args.logo_bytes = "png"
    THEN << Op("image", "title", <<"logo">>, left, yy - LogoDrop, LogoSize,
               page, TitleFill),
            Op("text", "title", <<"title">>, left + TitleIndent, yy, 0,
               page, TitleFill) >>
    ELSE IF args.logo_bytes = "garbage"
    THEN << Op("text", "title", <<"title">>, left, yy, 0, page, TitleFill) >>
    ELSE Badge(yy) \o
         << Op("text", "title", <<"title">>, left + TitleIndent, yy, 0,
               page, Black) >>

\* lines 1263-1312 with the meta line drawn before the title
Title_AfterMeta ==
    /\ pc = "title"
    /\ canvas' = Append(canvas, Op("text", "meta", <<"meta">>, left, Top, 0,
                                   page, fill)) \o Header(Top - MetaGap)
    /\ fill' = IF args.text_hex # NoColour /\ ~HexColorRaises(args.text_hex)
               THEN args.text_hex ELSE Black
    /\ y' = Top - MetaGap - TitleGap
    /\ consumed' = consumed + MetaGap + TitleGap
    /\ pc' = "kpi"
    /\ UNCHANGED <<others, stamp,
                   args, page, i, y0, y_img, result, surface_fault,
                   failed_chart, pie_failed>>
\* lines 1263-1307
Title ==
    /\ pc = "title"
    /\ canvas' = canvas \o Header(Top)
    /\ fill' = IF args.text_hex # NoColour /\ ~HexColorRaises(args.text_hex)
               THEN args.text_hex ELSE Black
    /\ y' = Top - TitleGap
    /\ consumed' = consumed + TitleGap
    /\ pc' = "meta"
    /\ UNCHANGED <<others, stamp,
                   args, page, i, y0, y_img, result, surface_fault,
                   failed_chart, pie_failed>>

\* lines 1309-1312
Meta ==
    /\ pc = "meta"
    /\ canvas' = Append(canvas, Op("text", "meta", <<"meta">>, left, y, 0,
                                   page, fill))
    /\ y' = y - MetaGap
    /\ consumed' = consumed + MetaGap
    /\ pc' = "kpi"
    /\ UNCHANGED <<others, stamp,
                   args, page, fill, i, y0, y_img, result, surface_fault,
                   failed_chart, pie_failed>>

\* a loop body "drawString; y -= h; if y < bottom_m + 2*cm: _show_page();
\* y = height - top_m" (lines 1322-1325, 1378-1381, 1390-1393, 1443-1446)
BreakBelow_AtMargin(yy) == yy < args.bottom_m  \* the break taken at the margin
BreakBelow(yy) == yy < args.bottom_m + LowWater

\* the loop body with the line left out when the page is broken
LineThenBreak_DropAtBreak(sec, item, h) ==
    LET cv == Append(canvas, Op("text", sec, item, left, y, 0, page, fill))
        brk == BreakBelow(y - h)
    IN /\ canvas' = IF brk THEN ShowPage(canvas, page, fill) ELSE cv
       /\ page' = IF brk THEN page + 1 ELSE page
       /\ fill' = IF brk THEN FillAfterShowPage ELSE fill
       /\ y' = IF brk THEN Top ELSE y - h
       /\ consumed' = consumed + h

LineThenBreak(sec, item, h) ==
    LET cv == Append(canvas, Op("text", sec, item, left, y, 0, page, fill))
        brk == BreakBelow(y - h)
    IN /\ canvas' = IF brk THEN ShowPage(cv, page, fill) ELSE cv
       /\ page' = IF brk THEN page + 1 ELSE page
       /\ fill' = IF brk THEN FillAfterShowPage ELSE fill
       /\ y' = IF brk THEN Top ELSE y - h
       /\ consumed' = consumed + h

\* a section heading: drawString(left, y, heading); y -= 0.6*cm
Heading(sec, gap) ==
    /\ canvas' = Append(canvas, Op("text", sec, <<"heading">>, left, y - gap,
                                   0, page, fill))
    /\ y' = y - gap - HeadGap
    /\ consumed' = consumed + gap + HeadGap

\* lines 1315-1319
KpiHead ==
    /\ pc = "kpi"
    /\ IF args.kpis.given
       THEN /\ Heading("kpi", 0)
            /\ i' = 0
            /\ pc' = "kpi_loop"
       ELSE /\ pc' = "spark"
            /\ UNCHANGED <<canvas, y, consumed, i>>
    /\ UNCHANGED <<others, stamp,
                   args, page, fill, y0, y_img, result, surface_fault,
                   failed_chart, pie_failed>>

\* lines 1320-1325: one iteration of the loop over the four labels
KpiLabel ==
    /\ pc = "kpi_loop"
    /\ IF KpiLabels[i + 1] \in args.kpis.keys
       THEN LineThenBreak("kpi", <<"kpi", KpiLabels[i + 1]>>, KpiLineH)
       ELSE UNCHANGED <<canvas, page, fill, y, consumed>>
    /\ i' = i + 1
    /\ pc' = IF i + 1 = Len(KpiLabels) THEN "spark" ELSE "kpi_loop"
    /\ UNCHANGED <<others, stamp,
                   args, y0, y_img, result, surface_fault, failed_chart,
                   pie_failed>>

\* the chart calls pass primary_color and text_hex to matplotlib unchecked
\* (lines 1347-1351); a colour it cannot parse makes the call raise
SparkColoursRaise ==
    \/ MplColourRaises(IF args.primary_color = NoColour THEN GoodHex
                       ELSE args.primary_color)
    \/ MplColourRaises(IF args.text_hex = NoColour THEN Black
                       ELSE args.text_hex)

\* background of a chart image: chart_bg_hex if matplotlib accepts it (the
\* inner try of lines 1341-1346 and 1413-1418), else matplotlib's own
ChartBg ==
    IF args.chart_bg_hex # NoColour /\ ~MplColourRaises(args.chart_bg_hex)
    THEN args.chart_bg_hex ELSE White

\* line 1328
SparkWanted ==
    args.include_sparklines /\ args.mpl_ok /\ args.spark_data > 0

\* lines 1328-1337
SparkHead ==
    /\ pc = "spark"
    /\ IF SparkWanted
       THEN /\ Heading("spark", 0)
            /\ y0' = y - HeadGap
            /\ i' = 0
            /\ pc' = "spark_loop"
       ELSE /\ pc' = "summary"
            /\ UNCHANGED <<canvas, y, consumed, y0, i>>
    /\ UNCHANGED <<others, stamp,
                   args, page, fill, y_img, result, surface_fault,
                   failed_chart, pie_failed>>

\* line 1363
GridBreak(yi) == yi - CellH < args.bottom_m + GridLowWater

\* lines 1338-1368: one iteration of the loop over spark_data whose chart
\* renders; the last iteration is followed by line 1368
SparkCell ==
    /\ pc = "spark_loop"
    /\ ~SparkColoursRaise
    /\ LET col == i % Cols
           row == i \div Cols
           yi == y0 - row * (CellH + CellGap)
           brk == GridBreak(yi)
           yd == IF brk THEN Top - GridTopGap ELSE yi
           xd == IF brk THEN left ELSE left + col * (CellW + CellGap)
           cv == IF brk THEN ShowPage(canvas, page, fill) ELSE canvas
           pg == IF brk THEN page + 1 ELSE page
           last == (i + 1 = args.spark_data)
           ynew == yd - CellH - GridEndGap
       IN /\ canvas' = Append(cv, Op("image", "spark", <<"chart", i + 1>>,
                                     xd, yd - CellH, CellH, pg, ChartBg))
          /\ page' = pg
          /\ fill' = IF brk THEN FillAfterShowPage ELSE fill
          /\ y0' = IF brk THEN yd ELSE y0
          /\ y_img' = yd
          /\ y' = IF last THEN ynew ELSE y
          /\ consumed' = IF last
                         THEN consumed + (IF y0' = y THEN y ELSE Top) - ynew
                         ELSE consumed
          /\ pc' = IF last THEN "summary" ELSE "spark_loop"
    /\ i' = i + 1
    /\ UNCHANGED <<others, stamp,
                   args, result, surface_fault, failed_chart, pie_failed>>

\* lines 1369-1370: a chart of the grid raises; "except Exception: pass"
\* leaves the loop with y as it was
SparkCellFails ==
    /\ pc = "spark_loop"
    /\ failed_chart' = i + 1
    /\ pc' = "summary"
    /\ UNCHANGED <<others, stamp,
                   args, y, page, fill, canvas, i, y0, y_img, result,
                   consumed, surface_fault, pie_failed>>

\* lines 1372-1376
SummaryHead ==
    /\ pc = "summary"
    /\ Heading("summary", 0)
    /\ i' = 0
    /\ pc' = IF args.summary_lines = 0 THEN "tip" ELSE "summary_loop"
    /\ UNCHANGED <<others, stamp,
                   args, page, fill, y0, y_img, result, surface_fault,
                   failed_chart, pie_failed>>

\* lines 1377-1381: one line of simpleSplit(summary_text, ...)
SummaryLine ==
    /\ pc = "summary_loop"
    /\ LineThenBreak("summary", <<"line", i + 1>>, TextLineH)
    /\ i' = i + 1
    /\ pc' = IF i + 1 = args.summary_lines THEN "tip" ELSE "summary_loop"
    /\ UNCHANGED <<others, stamp,
                   args, y0, y_img, result, surface_fault, failed_chart,
                   pie_failed>>

\* lines 1383-1388
TipHead ==
    /\ pc = "tip"
    /\ Heading("tip", SectionGap)
    /\ i' = 0
    /\ pc' = IF args.tip_lines = 0 THEN "category" ELSE "tip_loop"
    /\ UNCHANGED <<others, stamp,
                   args, page, fill, y0, y_img, result, surface_fault,
                   failed_chart, pie_failed>>

\* lines 1389-1393: one line of simpleSplit(tip_text, ...)
TipLine ==
    /\ pc = "tip_loop"
    /\ LineThenBreak("tip", <<"line", i + 1>>, TextLineH)
    /\ i' = i + 1
    /\ pc' = IF i + 1 = args.tip_lines THEN "category" ELSE "tip_loop"
    /\ UNCHANGED <<others, stamp,
                   args, y0, y_img, result, surface_fault, failed_chart,
                   pie_failed>>

\* sorted(d.items(), key=lambda x: x[1], reverse=True): descending by value,
\* entries of equal value in insertion order
Rank(s, j) ==
    Cardinality({m \in 1..Len(s) :
                    s[m].v > s[j].v \/ (s[m].v = s[j].v /\ m < j)}) + 1
\* the sort without reverse=True
SortedDesc_Ascending(s) ==
    [r \in 1..Len(s) |-> s[CHOOSE j \in 1..Len(s) : Rank(s, j) = Len(s) + 1 - r]]
SortedDesc(s) ==
    [r \in 1..Len(s) |-> s[CHOOSE j \in 1..Len(s) : Rank(s, j) = r]]

\* f"{float(v):.2f}": v in 0.001, the result in 0.01 (no input ends in 5)
Fmt2(v) == (v + 5) \div 10

\* lines 1396-1401
CategoryHead ==
    /\ pc = "category"
    /\ IF args.per_category # <<>>
       THEN /\ Heading("category", SectionGap)
            /\ i' = 0
            /\ pc' = "cat_loop"
       ELSE /\ pc' = "activity"
            /\ UNCHANGED <<canvas, y, consumed, i>>
    /\ UNCHANGED <<others, stamp,
                   args, page, fill, y0, y_img, result, surface_fault,
                   failed_chart, pie_failed>>

\* line 1405: the category list stops ("break") below this mark
CatStop(yy) == yy < args.bottom_m + CatLowWater

\* lines 1402-1406: one line of the category list
CategoryLine ==
    /\ pc = "cat_loop"
    /\ LET e == SortedDesc(args.per_category)[i + 1]
       IN canvas' = Append(canvas, Op("text", "category",
                                      <<"entry", e.k, Fmt2(e.v)>>, left, y,
                                      0, page, fill))
    /\ y' = y - ListLineH
    /\ consumed' = consumed + ListLineH
    /\ i' = i + 1
    /\ pc' = IF CatStop(y') \/ i + 1 = Len(args.per_category)
             THEN "pie" ELSE "cat_loop"
    /\ UNCHANGED <<others, stamp,
                   args, page, fill, y0, y_img, result, surface_fault,
                   failed_chart, pie_failed>>

RECURSIVE SumV(_)
SumV(s) == IF s = <<>> THEN 0 ELSE Head(s).v + SumV(Tail(s))

\* the pie rendered without looking at the sum of the values
PieWanted_NoSum == args.include_pie /\ args.mpl_ok

\* lines 1407 and 1412: the pie is rendered under these conditions
PieWanted ==
    args.include_pie /\ args.mpl_ok /\ SumV(args.per_category) > 0

\* ax.pie(..., textprops={'color': text_hex or '#000000'}) (line 1419)
PieColoursRaise ==
    MplColourRaises(IF args.text_hex = NoColour THEN Black ELSE args.text_hex)

\* lines 1407-1433, no call raising
Pie ==
    /\ pc = "pie"
    /\ IF PieWanted /\ ~PieColoursRaise
       THEN /\ canvas' = Append(canvas, Op("image", "pie", <<"pie">>,
                                           right - PieW, y + PieGap, PieH,
                                           page, ChartBg))
            /\ y' = y - (PieH + PieGap)
            /\ consumed' = consumed + PieH + PieGap
            /\ UNCHANGED pie_failed
       ELSE /\ pie_failed' = (PieWanted /\ PieColoursRaise)
            /\ UNCHANGED <<canvas, y, consumed>>
    /\ pc' = "activity"
    /\ UNCHANGED <<others, stamp,
                   args, page, fill, i, y0, y_img, result, surface_fault,
                   failed_chart>>

\* lines 1432-1433: rendering the pie raises; "except Exception: pass"
PieFails ==
    /\ pc = "pie"
    /\ PieWanted
    /\ pie_failed' = TRUE
    /\ pc' = "activity"
    /\ UNCHANGED <<others, stamp,
                   args, y, page, fill, canvas, i, y0, y_img, result,
                   consumed, surface_fault, failed_chart>>

\* lines 1436-1441
ActivityHead_AlwaysHeading ==
    /\ pc = "activity"
    /\ Heading("activity", SectionGap)
    /\ i' = 0
    /\ pc' = IF args.per_activity # <<>> THEN "act_loop" ELSE "final"
    /\ UNCHANGED <<others, stamp,
                   args, page, fill, y0, y_img, result, surface_fault,
                   failed_chart, pie_failed>>
ActivityHead ==
    /\ pc = "activity"
    /\ IF args.per_activity # <<>>
       THEN /\ Heading("activity", SectionGap)
            /\ i' = 0
            /\ pc' = "act_loop"
       ELSE /\ pc' = "final"
            /\ UNCHANGED <<canvas, y, consumed, i>>
    /\ UNCHANGED <<others, stamp,
                   args, page, fill, y0, y_img, result, surface_fault,
                   failed_chart, pie_failed>>

\* lines 1442-1446: one line of the activity table
ActivityLine_Truncating ==
    /\ pc = "act_loop"
    /\ LET e == SortedDesc(args.per_activity)[i + 1]
       IN canvas' = Append(canvas, Op("text", "activity",
                                      <<"entry", e.k, Fmt2(e.v)>>, left, y,
                                      0, page, fill))
    /\ y' = y - ListLineH
    /\ consumed' = consumed + ListLineH
    /\ i' = i + 1
    /\ pc' = IF i + 1 = Len(args.per_activity) \/ BreakBelow(y - ListLineH)
             THEN "final" ELSE "act_loop"
    /\ UNCHANGED <<others, stamp,
                   args, page, fill, y0, y_img, result, surface_fault,
                   failed_chart, pie_failed>>
ActivityLine ==
    /\ pc = "act_loop"
    /\ LET e == SortedDesc(args.per_activity)[i + 1]
       IN LineThenBreak("activity", <<"entry", e.k, Fmt2(e.v)>>, ListLineH)
    /\ i' = i + 1
    /\ pc' = IF i + 1 = Len(args.per_activity) THEN "final" ELSE "act_loop"
    /\ UNCHANGED <<others, stamp,
                   args, y0, y_img, result, surface_fault, failed_chart,
                   pie_failed>>

\* the document saved without the last page having been ended
Final_NoFlush ==
    /\ pc = "final"
    /\ result' = [bytes |-> Some(canvas), err |-> ""]
    /\ stamp' = Some(clock)
    /\ pc' = "done"
    /\ UNCHANGED <<others, args, y, i, y0, y_img, consumed, surface_fault,
                   failed_chart, pie_failed, canvas, page, fill>>

\* lines 1448-1452: the last page is ended, save() writes the document (its
\* information dictionary with the creation date, the canvas of line 1220
\* having been made without invariant=1) and the bytes are returned
Final ==
    /\ pc = "final"
    /\ canvas' = ShowPage(canvas, page, fill)
    /\ page' = page + 1
    /\ fill' = FillAfterShowPage
    /\ result' = [bytes |-> Some(canvas'), err |-> ""]
    /\ stamp' = Some(clock)
    /\ pc' = "done"
    /\ UNCHANGED <<others, args, y, i, y0, y_img, consumed, surface_fault,
                   failed_chart, pie_failed>>

\* positions at which a raising canvas call is not inside a nested try
Faultable ==
    {"title", "meta", "kpi", "kpi_loop", "summary", "summary_loop", "tip",
     "tip_loop", "category", "cat_loop", "activity", "act_loop", "final"}

\* lines 1453-1454: a call of the drawing surface raises and the outer
\* handler returns the error
DrawingFails ==
    /\ pc \in Faultable
    /\ result' = OnException
    /\ surface_fault' = TRUE
    /\ pc' = "done"
    /\ Discard
    /\ UNCHANGED <<others, stamp, args, failed_chart, pie_failed>>

Next ==
    \/ Begin \/ Title \/ Meta \/ KpiHead \/ KpiLabel
    \/ SparkHead \/ SparkCell \/ SparkCellFails
    \/ SummaryHead \/ SummaryLine \/ TipHead \/ TipLine
    \/ CategoryHead \/ CategoryLine \/ Pie \/ PieFails
    \/ ActivityHead \/ ActivityLine \/ Final \/ DrawingFails

Spec == Init /\ [][Next]_vars

-----------------------------------------------------------------------------
(* The builder called twice with the same arguments (line 1178: the export
   panel calls it on every run of the script while the PDF options stay as
   they are) *)

MaxClock == 1       \* seconds the wall clock can advance between the calls

\* the arguments the two calls are made with
TwiceCalls ==
    { a \in ThemeArgs : /\ a.primary_color = NoColour
                        /\ a.text_hex = NoColour
                        /\ a.chart_bg_hex \in {NoColour, GoodHex} }

InitTwice == Init /\ args \in TwiceCalls

\* what the caller holds after a call: the returned pair, the information
\* dictionary inside the bytes, and which calls of the libraries failed
Returned ==
    [ result |-> result, info |-> stamp,
      faults |-> <<surface_fault, failed_chart, pie_failed>> ]

\* the first call has returned; the second is made with the same arguments,
\* at the same second or later
Again ==
    /\ pc = "done"
    /\ first = NoneVal
    /\ first' = Some(Returned)
    /\ clock' \in clock..MaxClock
    /\ pc' = "start"
    /\ result' = [bytes |-> NoneVal, err |-> ""]
    /\ stamp' = NoneVal
    /\ surface_fault' = FALSE /\ failed_chart' = 0 /\ pie_failed' = FALSE
    /\ Discard
    /\ UNCHANGED <<args, pyplot, app, tipjob>>

NextTwice == Next \/ Again

SpecTwice == InitTwice /\ [][NextTwice]_vars

-----------------------------------------------------------------------------
(* Two calls in parallel: the chart steps of lines 1339-1357 and 1409-1427.
   plt.subplots() registers a new figure with pyplot and makes it the
   current one; plt.tight_layout() acts on pyplot's current figure;
   fig.savefig() and plt.close(fig) act on the call's own figure. *)

ParCharts == 2      \* charts each of the parallel calls makes

\* the single-call machine is not running
BuilderIdle ==
    /\ args = DefaultArgs
    /\ pc = "done"
    /\ y = 0 /\ page = 1 /\ fill = Black /\ canvas = <<>>
    /\ i = 0 /\ y0 = 0 /\ y_img = 0
    /\ result = [bytes |-> NoneVal, err |-> ""]
    /\ consumed = 0
    /\ surface_fault = FALSE /\ failed_chart = 0 /\ pie_failed = FALSE
    /\ stamp = NoneVal
    /\ clock = 0 /\ first = NoneVal

InitPar ==
    /\ BuilderIdle
    /\ AppIdle
    /\ TipIdle
    /\ ppc = [p \in Procs |-> "subplots"]
    /\ pj = [p \in Procs |-> 1]
    /\ imgs = [p \in Procs |-> <<>>]
    /\ figs = <<>>
    /\ laid = {}

\* the figure of call p's current chart
Fig(p) == <<p, pj[p]>>

\* lines 1339, 1409: fig, ax = plt.subplots(...)
Subplots(p) ==
    /\ ppc[p] = "subplots"
    /\ figs' = Append(figs, Fig(p))
    /\ ppc' = [ppc EXCEPT ![p] = "layout"]
    /\ UNCHANGED <<pj, imgs, laid, builder, caller, app,
                   tipjob>>

\* a tight_layout that acts on the figure of the call itself
TightLayoutTarget_Own(p) == Fig(p)

\* the figure plt.tight_layout() is applied to by call p: pyplot's current
\* figure, the one registered last
TightLayoutTarget(p) == figs[Len(figs)]

\* lines 1355, 1425: plt.tight_layout()
TightLayout(p) ==
    /\ ppc[p] = "layout"
    /\ laid' = laid \cup {TightLayoutTarget(p)}
    /\ ppc' = [ppc EXCEPT ![p] = "savefig"]
    /\ UNCHANGED <<pj, imgs, figs, builder, caller, app,
                   tipjob>>

\* lines 1356, 1426: fig.savefig(...): the image shows the own figure as
\* it is, laid out or not
SaveFig(p) ==
    /\ ppc[p] = "savefig"
    /\ imgs' = [imgs EXCEPT ![p] = Append(@, [chart |-> pj[p],
                                              tight |-> Fig(p) \in laid])]
    /\ ppc' = [ppc EXCEPT ![p] = "close"]
    /\ UNCHANGED <<pj, figs, laid, builder, caller, app,
                   tipjob>>

\* lines 1357, 1427: plt.close(fig), then the next chart or the end
CloseFig(p) ==
    /\ ppc[p] = "close"
    /\ figs' = SelectSeq(figs, LAMBDA f : f # Fig(p))
    /\ laid' = laid \ {Fig(p)}
    /\ IF pj[p] < ParCharts
       THEN /\ pj' = [pj EXCEPT ![p] = @ + 1]
            /\ ppc' = [ppc EXCEPT ![p] = "subplots"]
       ELSE /\ ppc' = [ppc EXCEPT ![p] = "done"]
            /\ UNCHANGED pj
    /\ UNCHANGED <<imgs, builder, caller, app,
                   tipjob>>

NextPar ==
    \E p \in Procs :
        \/ Subplots(p) \/ TightLayout(p) \/ SaveFig(p) \/ CloseFig(p)

SpecPar == InitPar /\ [][NextPar]_vars

\* the images a call produces when it runs alone
AloneImgs == [j \in 1..ParCharts |-> [chart |-> j, tight |-> TRUE]]

-----------------------------------------------------------------------------
(* One browser session of the app.  A user event sets the state of its
   widget and starts a run of the script from the top; a run that calls
   st.rerun() stops there and is followed at once by another run.  The
   fields of the form are sent with the form's submit button only. *)

UserValues == {0, 5}                \* what the user types into a field
DemoVals == [bus_km |-> 10]         \* demo_vals (lines 474-487) on Keys

\* lines 295-305: the keys whose value is negative (number_input hands
\* out floats, so _coerce_float never returns None here)
find_invalid_fields(user_data) ==
    {k \in DOMAIN user_data : user_data[k] < 0}

\* lines 287-293
has_meaningful_input(user_data) ==
    \E k \in DOMAIN user_data : user_data[k] > 0

\* the save panel saving whatever was submitted
SaveOutcome_Unchecked(submitted, user_data) ==
    IF submitted THEN "Saved." ELSE ""

\* lines 843-877: what the save panel does with a run's inputs
SaveOutcome(submitted, user_data) ==
    IF ~submitted THEN ""
    ELSE IF find_invalid_fields(user_data) # {} THEN "invalid"
    ELSE IF ~has_meaningful_input(user_data) THEN "empty"
    ELSE "Saved."

\* lines 73-80: the rows of history.csv, or an empty frame when the file
\* is missing or read_csv raises
load_history(h, read_ok) == IF read_ok THEN h ELSE <<>>

\* line 100: df.sort_values("date")
sort_values(df) == SortSeq(df, LAMBDA a, b : a.date < b.date)

\* lines 83-101: the frame read by load_history gets the row of the date
\* overwritten (every row the mask selects) or appended, is sorted by date
\* and written back; total_kg is computed from the values and is left out
save_entry(h, date_val, activity_data, read_ok) ==
    LET df == load_history(h, read_ok)
        row == [date |-> date_val, vals |-> activity_data]
        mask == {k \in 1..Len(df) : df[k].date = date_val}
    IN sort_values(IF df = <<>> THEN <<row>>
                   ELSE IF mask # {}
                   THEN [k \in 1..Len(df) |->
                            IF k \in mask THEN row ELSE df[k]]
                   ELSE Append(df, row))

\* lines 353-358 and 361-376: the URL's density is queued when it differs
\* from the session's; a queued density and a queued "demo off" are applied
ApplyPending(s, u) ==
    LET s1 == IF u \in Densities /\ u # s.density
              THEN [s EXCEPT !.pending_density = Some(u)] ELSE s
        s2 == IF s1.pending_density # NoneVal
              THEN [s1 EXCEPT !.density = s1.pending_density[1],
                              !.pending_density = NoneVal]
              ELSE s1
    IN IF s2.pending_demo_off
       THEN [s2 EXCEPT !.demo_mode = FALSE, !.pending_demo_off = FALSE]
       ELSE s2

\* lines 439-495: demo mode is entered
EnterDemo(s) ==
    [s EXCEPT !.demo_snapshot = Some([density |-> s.density,
                                      inputs |-> s.inputs]),
              !.pending_density = Some("Compact"),
              !.pending_values = Some(DemoVals),
              !.tips_autogen = TRUE,
              !.demo_mode_applied = TRUE]

\* lines 523-545: the button "Exit Demo Mode"
LeaveDemo(s) ==
    [s EXCEPT !.pending_values =
                  IF s.demo_snapshot # NoneVal
                  THEN Some(s.demo_snapshot[1].inputs)
                  ELSE Some([k \in Keys |-> 0]),
              !.pending_density =
                  IF s.demo_snapshot # NoneVal
                  THEN Some(s.demo_snapshot[1].density)
                  ELSE Some("Comfy"),
              !.tips_autogen = FALSE,
              !.demo_mode_applied = FALSE,
              !.pending_demo_off = TRUE,
              !.demo_snapshot = NoneVal]

\* lines 712-720: queued values are written into the fields
ApplyValues(s) ==
    IF s.pending_values = NoneVal THEN s
    ELSE [s EXCEPT !.inputs = [k \in Keys |->
                                  IF k \in DOMAIN s.pending_values[1]
                                  THEN s.pending_values[1][k]
                                  ELSE s.inputs[k]],
                   !.pending_values = NoneVal]

\* one run of the script (lines 346-877) from the session s, the URL
\* density u and the store h; read_ok tells whether history.csv can be read
Run(s, u, h, exit_clicked, submitted, read_ok) ==
    LET s3 == ApplyPending(s, u)
    IN IF s3.demo_mode /\ ~s3.demo_mode_applied
       THEN [session |-> EnterDemo(s3), url_density |-> u, history |-> h,
             shown |-> "", rerun |-> TRUE]
       ELSE IF s3.demo_mode /\ exit_clicked
       THEN [session |-> LeaveDemo(s3), url_density |-> u, history |-> h,
             shown |-> "", rerun |-> TRUE]
       ELSE LET s4 == ApplyValues(s3)
                out == SaveOutcome(submitted, s4.inputs)
            IN [session |-> s4, url_density |-> s4.density,
                history |-> IF out = "Saved."
                            THEN save_entry(h, selected_date, s4.inputs,
                                            read_ok)
                            ELSE h,
                shown |-> out, rerun |-> FALSE]

\* the state after the run r started by event e
Ran(r, e) ==
    /\ session' = r.session
    /\ url_density' = r.url_density
    /\ history' = r.history
    /\ shown' = r.shown
    /\ rerun' = r.rerun
    /\ last_event' = e
    /\ at_entry' = IF e = "check"
                   THEN Some([density |-> session.density,
                              inputs |-> session.inputs])
                   ELSE at_entry
    /\ UNCHANGED <<builder, caller, pyplot, tipjob>>

\* lines 419-424: the checkbox "Demo mode" is ticked
CheckDemo ==
    /\ ~rerun /\ ~session.demo_mode
    /\ Ran(Run([session EXCEPT !.demo_mode = TRUE], url_density, history,
               FALSE, FALSE, TRUE), "check")
    /\ UNCHANGED selected_date

\* the checkbox is cleared by hand
UncheckDemo ==
    /\ ~rerun /\ session.demo_mode
    /\ Ran(Run([session EXCEPT !.demo_mode = FALSE], url_density, history,
               FALSE, FALSE, TRUE), "uncheck")
    /\ UNCHANGED selected_date

\* lines 497-545: the button shown while the checkbox is ticked
ExitDemo ==
    /\ ~rerun /\ session.demo_mode
    /\ Ran(Run(session, url_density, history, TRUE, FALSE, TRUE), "exit")
    /\ UNCHANGED selected_date

\* lines 384-390: the density radio (key "density") is set to d
ChooseDensity ==
    /\ ~rerun
    /\ \E d \in Densities \ {session.density} :
          Ran(Run([session EXCEPT !.density = d], url_density, history,
                  FALSE, FALSE, TRUE), "density")
    /\ UNCHANGED selected_date

\* line 708: another date is picked
PickDate ==
    /\ ~rerun
    /\ \E d \in Dates \ {selected_date} :
          /\ selected_date' = d
          /\ Ran(Run(session, url_density, history, FALSE, FALSE, TRUE),
                 "date")

\* lines 722-770: the form is submitted with the values typed into it;
\* the read of history.csv inside save_entry succeeds or raises
Submit ==
    /\ ~rerun
    /\ \E typed \in [Keys -> UserValues \cup {session.inputs[k] : k \in Keys}],
          read_ok \in BOOLEAN :
          /\ \A k \in Keys :
                typed[k] \in UserValues \/ typed[k] = session.inputs[k]
          /\ Ran(Run([session EXCEPT !.inputs = typed], url_density,
                     history, FALSE, TRUE, read_ok), "submit")
    /\ UNCHANGED selected_date

\* the run that follows st.rerun()
Rerun ==
    /\ rerun
    /\ Ran(Run(session, url_density, history, FALSE, FALSE, TRUE), "rerun")
    /\ UNCHANGED selected_date

InitApp == BuilderIdle /\ PyplotIdle /\ AppInit /\ TipIdle

NextApp ==
    \/ CheckDemo \/ UncheckDemo \/ ExitDemo \/ ChooseDensity
    \/ PickDate \/ Submit \/ Rerun

SpecApp == InitApp /\ [][NextApp]_vars

-----------------------------------------------------------------------------
(* The wait for the eco tip (lines 899-925).  The main thread polls the
   future of generate_tip, which runs in a worker thread; time passes
   between any two steps of either thread. *)

SleepTime == 5                  \* time.sleep(0.05)
SliderStep == 5                 \* the threshold slider moves by 0.05 s
TipResult == "tip"              \* what generate_tip returns

\* lines 549-551, 903: the thresholds the slider can be set to
Thresholds == {t \in 0..MaxThreshold : t % SliderStep = 0}

\* lines 900-907: the state after ex.submit(generate_tip, ...)
InitTip ==
    /\ BuilderIdle /\ PyplotIdle /\ AppIdle
    /\ clock = 0 /\ first = NoneVal
    /\ tpc = "poll" /\ tnow = 0
    /\ threshold \in Thresholds
    /\ fut = "running" /\ fut_at = 0
    /\ spinner_shown = FALSE /\ tip = NoneVal /\ effects = <<>>

\* time passes
Tick ==
    /\ tpc \notin {"idle", "out"}
    /\ tnow < MaxTime
    /\ tnow' = tnow + 1
    /\ UNCHANGED <<tpc, threshold, fut, fut_at, spinner_shown, tip, effects>>
    /\ UNCHANGED <<builder, caller, pyplot, app>>

\* the worker thread: generate_tip returns and the future completes
FutureDone ==
    /\ fut = "running"
    /\ fut' = "done"
    /\ fut_at' = tnow
    /\ UNCHANGED <<tpc, tnow, threshold, spinner_shown, tip, effects>>
    /\ UNCHANGED <<builder, caller, pyplot, app>>

\* lines 910-912: fut.done() is true
PollDone ==
    /\ tpc = "poll" /\ fut = "done"
    /\ tip' = Some(TipResult)
    /\ effects' = Append(effects, "assign")
    /\ tpc' = "out"
    /\ UNCHANGED <<tnow, threshold, fut, fut_at, spinner_shown>>
    /\ UNCHANGED <<builder, caller, pyplot, app>>

\* line 910: fut.done() is false
PollPending ==
    /\ tpc = "poll" /\ fut = "running"
    /\ tpc' = "clock"
    /\ UNCHANGED <<tnow, threshold, fut, fut_at, spinner_shown, tip, effects>>
    /\ UNCHANGED <<builder, caller, pyplot, app>>

\* the test of line 914 that never asks for the threshold
ReadClock_NoThreshold ==
    /\ tpc = "clock"
    /\ IF ~spinner_shown
       THEN tpc' = "block" /\ effects' = Append(effects, "spinner")
       ELSE tpc' = "sleep" /\ UNCHANGED effects
    /\ UNCHANGED <<tnow, threshold, fut, fut_at, spinner_shown, tip>>
    /\ UNCHANGED <<builder, caller, pyplot, app>>

\* lines 913-916: the clock is read; past the threshold the spinner is
\* displayed and the thread goes to wait inside it
ReadClock ==
    /\ tpc = "clock"
    /\ IF ~spinner_shown /\ tnow > threshold
       THEN tpc' = "block" /\ effects' = Append(effects, "spinner")
       ELSE tpc' = "sleep" /\ UNCHANGED effects
    /\ UNCHANGED <<tnow, threshold, fut, fut_at, spinner_shown, tip>>
    /\ UNCHANGED <<builder, caller, pyplot, app>>

\* line 919: time.sleep(0.05)
Sleep ==
    /\ tpc = "sleep"
    /\ tnow' = IF tnow + SleepTime > MaxTime THEN MaxTime
               ELSE tnow + SleepTime
    /\ tpc' = "poll"
    /\ UNCHANGED <<threshold, fut, fut_at, spinner_shown, tip, effects>>
    /\ UNCHANGED <<builder, caller, pyplot, app>>

\* lines 917-919: fut.result() returns inside the spinner
Block ==
    /\ tpc = "block" /\ fut = "done"
    /\ tip' = Some(TipResult)
    /\ effects' = Append(effects, "assign")
    /\ spinner_shown' = TRUE
    /\ tpc' = "out"
    /\ UNCHANGED <<tnow, threshold, fut, fut_at>>
    /\ UNCHANGED <<builder, caller, pyplot, app>>

\* the steps of the main thread
LoopStep == PollDone \/ PollPending \/ ReadClock \/ Sleep \/ Block

NextTip == Tick \/ FutureDone \/ LoopStep

\* both threads keep running: the main thread takes its next step, and
\* generate_tip returns
SpecTip ==
    /\ InitTip /\ [][NextTip]_vars
    /\ WF_vars(LoopStep) /\ WF_vars(FutureDone)

-----------------------------------------------------------------------------
(* Reading the store *)

\* the values of the rows a frame holds for a date
RowsOf(h, d) == {h[k].vals : k \in {j \in 1..Len(h) : h[j].date = d}}

-----------------------------------------------------------------------------
(* Reading the canvas *)

\* the run has not gone through the outer handler, so canvas is the document
Intact == args.reportlab_ok /\ ~surface_fault /\ pc # "start"

\* indexes of the operations of one kind in one section
OpsOf(cv, sec, kind) ==
    {k \in 1..Len(cv) : cv[k].sec = sec /\ cv[k].op = kind}

Drawn(cv, sec, kind, item) ==
    \E k \in OpsOf(cv, sec, kind) : cv[k].item = item

Pages(cv) == Cardinality({k \in 1..Len(cv) : cv[k].op = "showPage"})

CeilDiv(a, b) == (a + b - 1) \div b

SectionDone ==
    pc \in {"meta", "kpi", "spark", "summary", "tip", "category", "activity",
            "final"}

\* a chart failed although its colours were fine
InjectedFault ==
    \/ failed_chart # 0 /\ ~SparkColoursRaise
    \/ pie_failed /\ ~PieColoursRaise

-----------------------------------------------------------------------------
(* C1: after each section has been rendered the cursor y lies in
   [bottom_margin, page_height - top_margin]. *)
C1_CursorInBand ==
    SectionDone => (args.bottom_m <= y /\ y <= Top)

(* C2: no text line of the content (headings included; the footer is page
   furniture placed below the margin on purpose) is drawn below
   bottom_margin. *)
C2_NoTextBelowBottom ==
    \A k \in 1..Len(canvas) :
        (canvas[k].op = "text" /\ canvas[k].sec # "footer")
            => canvas[k].y >= args.bottom_m

(* C3: when the sections consume more height than one page holds, the
   returned document has ceil(consumed / available) pages.  Stated for the
   builds in which the cursor and the text stay above the bottom margin, so
   that a failure does not come from the overflow of C1 and C2. *)
C3_PagesCeil ==
    ( /\ pc = "done" /\ result.bytes # NoneVal /\ consumed > Avail
      /\ y >= args.bottom_m /\ C2_NoTextBelowBottom )
        => Pages(result.bytes[1]) = CeilDiv(consumed, Avail)

\* height by which a loop moves the cursor after a line of the section
LineH(sec) ==
    IF sec = "kpi" THEN KpiLineH
    ELSE IF sec = "activity" THEN ListLineH ELSE TextLineH

\* the times the layout went below a low-water mark, read off the document:
\* a line of the KPI, summary, tip or activity loop that left the cursor
\* less than 2 cm above the bottom margin, or a grid cell moved to the top
\* of a fresh page
LowWaterCrossings(cv) ==
    Cardinality({k \in 1..Len(cv) :
        \/ /\ cv[k].op = "text"
           /\ cv[k].sec \in {"kpi", "summary", "tip", "activity"}
           /\ cv[k].item # <<"heading">>
           /\ cv[k].y - LineH(cv[k].sec) < args.bottom_m + LowWater
        \/ /\ cv[k].op = "image" /\ cv[k].sec = "spark"
           /\ cv[k].x = left
           /\ cv[k].y = Top - GridTopGap - CellH})

(* C3, amended: the returned document has one page more than the number of
   times the layout went below a low-water mark (2 cm above the bottom
   margin after a KPI, summary, tip or activity line, 1.5 cm for the bottom
   of a grid cell). *)
C3_PagesLowWater ==
    (pc = "done" /\ result.bytes # NoneVal)
        => Pages(result.bytes[1]) = 1 + LowWaterCrossings(result.bytes[1])

C3_Witness ==
    /\ pc = "done" /\ result.bytes # NoneVal /\ consumed > Avail
    /\ Pages(result.bytes[1]) = 3
    /\ args.per_category = <<>>

\* a document every page of which has been ended by showPage
Complete(cv) ==
    /\ Len(cv) > 0
    /\ cv[Len(cv)].op = "showPage"
    /\ \A k \in 1..Len(cv) : cv[k].page <= Pages(cv)

(* C4: the call returns either a complete, page-terminated document and no
   error, or no bytes and an error message; nothing is returned earlier and
   no partly built buffer is returned, also when reportlab is missing or a
   drawing call fails. *)
C4_AllOrNothing ==
    /\ pc = "done" =>
         \/ result.bytes # NoneVal /\ result.err = ""
                /\ Complete(result.bytes[1])
         \/ result.bytes = NoneVal /\ result.err # ""
    /\ pc # "done" => (result = [bytes |-> NoneVal, err |-> ""] /\ ENABLED Next)

C4_Witness ==
    pc = "done" /\ surface_fault /\ result.bytes = NoneVal

(* C5: with an invalid hex string as primary, text or chart-background
   colour the call still returns a document in which the title, the badge,
   the footer, the sparklines and the pie are drawn (in a default colour),
   none of them left out. *)
C5_DefaultColours ==
    ( /\ pc = "done" /\ Intact /\ ~InjectedFault
      /\ BadHex \in {args.primary_color, args.text_hex, args.chart_bg_hex} )
    => /\ result.bytes # NoneVal
       /\ Drawn(canvas, "title", "text", <<"title">>)
       /\ args.logo_bytes = "none" => Drawn(canvas, "title", "rect", <<"badge">>)
       /\ args.footer_text # "" => OpsOf(canvas, "footer", "text") # {}
       /\ SparkWanted =>
            \A j \in 1..args.spark_data :
                Drawn(canvas, "spark", "image", <<"chart", j>>)
       /\ (args.per_category # <<>> /\ PieWanted) =>
            Drawn(canvas, "pie", "image", <<"pie">>)

(* C6: without matplotlib the call still returns a non-empty document in
   which the summary block and the tip block are drawn, every line once. *)
C6_TextWithoutCharts ==
    (pc = "done" /\ args.reportlab_ok /\ ~args.mpl_ok /\ ~surface_fault)
    => /\ result.err = "" /\ result.bytes # NoneVal
       /\ LET doc == result.bytes[1]
          IN /\ Len(doc) > 0
             /\ \A sec \in {"summary", "tip"} :
                  /\ Drawn(doc, sec, "text", <<"heading">>)
                  /\ \A j \in 1..(IF sec = "summary" THEN args.summary_lines
                                  ELSE args.tip_lines) :
                        Cardinality({k \in OpsOf(doc, sec, "text") :
                                        doc[k].item = <<"line", j>>}) = 1

C6_Witness ==
    /\ pc = "done" /\ ~args.mpl_ok /\ result.bytes # NoneVal
    /\ args.summary_lines = MaxLines /\ args.tip_lines = MaxLines
    /\ args.include_sparklines /\ args.include_pie

(* C7: every sparkline entry without an image (no matplotlib, or its chart
   failed) is drawn as a "No data" label in its grid cell. *)
C7_NoDataLabels ==
    (pc = "summary" /\ args.include_sparklines /\ args.spark_data > 0)
    => \A j \in 1..args.spark_data :
          \/ Drawn(canvas, "spark", "image", <<"chart", j>>)
          \/ Drawn(canvas, "spark", "text", <<"nodata", j>>)

(* C8: when one sparkline chart fails, every other entry of the grid,
   before and after it, is still drawn. *)
C8_OnlyFailedAbsent ==
    (pc = "summary" /\ failed_chart # 0 /\ ~SparkColoursRaise)
    => \A j \in (1..args.spark_data) \ {failed_chart} :
          Drawn(canvas, "spark", "image", <<"chart", j>>)

\* the lines of the category list on the canvas, in drawing order
CatLines ==
    SelectSeq(canvas, LAMBDA o : o.sec = "category" /\ o.item # <<"heading">>)

CategoryOver ==
    /\ Intact
    /\ pc \in {"pie", "activity", "act_loop", "final", "done"}
    /\ args.per_category # <<>>

\* the entry of per_category that a drawn line shows
EntryOf(o) ==
    CHOOSE j \in 1..Len(args.per_category) :
        o.item = <<"entry", args.per_category[j].k,
                   Fmt2(args.per_category[j].v)>>

(* C9: for a non-empty per-category map the category list is drawn in
   full: one line per category, "category: value" with two decimals, in
   descending order of value. *)
C9_FullList ==
    CategoryOver =>
        /\ Len(CatLines) = Len(args.per_category)
        /\ \A r \in 1..Len(CatLines) :
              \E j \in 1..Len(args.per_category) :
                  CatLines[r].item = <<"entry", args.per_category[j].k,
                                       Fmt2(args.per_category[j].v)>>
        /\ \A r \in 1..(Len(CatLines) - 1) :
              CatLines[r].item[3] >= CatLines[r + 1].item[3]

(* C9, amended: the category list is drawn in descending order of value,
   one line "category: value" (two decimals) per category, until a line
   leaves the cursor less than 6 cm above the bottom margin: the m lines
   drawn are the m largest entries, each once, m >= 1, and m is the first
   count after which the cursor is below that mark, or the whole list. *)
C9_ListUntilLowWater ==
    CategoryOver =>
        LET m == Len(CatLines)
            n == Len(args.per_category)
            hd == CHOOSE k \in OpsOf(canvas, "category", "text") :
                      canvas[k].item = <<"heading">>
            after(r) == canvas[hd].y - HeadGap - r * ListLineH
        IN /\ 1 <= m /\ m <= n
           /\ \A r \in 1..m :
                 /\ \E j \in 1..n :
                       CatLines[r].item = <<"entry", args.per_category[j].k,
                                            Fmt2(args.per_category[j].v)>>
                 /\ CatLines[r].y = after(r - 1)
           /\ \A r, q \in 1..m : r # q => EntryOf(CatLines[r]) # EntryOf(CatLines[q])
           /\ \A r \in 1..(m - 1) :
                 args.per_category[EntryOf(CatLines[r])].v
                     >= args.per_category[EntryOf(CatLines[r + 1])].v
           /\ \A j \in 1..n :
                 (\A r \in 1..m : EntryOf(CatLines[r]) # j)
                     => args.per_category[j].v
                            <= args.per_category[EntryOf(CatLines[m])].v
           /\ m = n \/ after(m) < args.bottom_m + CatLowWater
           /\ \A r \in 1..(m - 1) : after(r) >= args.bottom_m + CatLowWater

C9_Witness ==
    /\ CategoryOver /\ pc = "activity"
    /\ 1 <= Len(CatLines) /\ Len(CatLines) < Len(args.per_category)

(* C10: the pie image is drawn only if matplotlib is available, the pie
   option is on and the per-category values sum to more than 0; otherwise
   the category section draws no image. *)
C10_PieOnlyIf ==
    (\E k \in 1..Len(canvas) :
        canvas[k].op = "image" /\ canvas[k].sec \in {"pie", "category"})
    => /\ args.mpl_ok /\ args.include_pie
       /\ SumV(args.per_category) > 0

C10_Witness ==
    /\ pc = "activity"
    /\ Drawn(canvas, "pie", "image", <<"pie">>)

\* the lines of the activity table on the canvas, in drawing order
ActLines ==
    SelectSeq(canvas, LAMBDA o : o.sec = "activity" /\ o.item # <<"heading">>)

ActivityOver ==
    /\ Intact
    /\ pc \in {"final", "done"}
    /\ args.per_activity # <<>>

(* C11: the activity table never starts a new page: every line of it is on
   the page of its heading, and no entry is drawn after a line that left
   the cursor less than 2 cm above the bottom margin (the entries after it
   are left out). *)
C11_TableTruncated ==
    \A k \in OpsOf(canvas, "activity", "text") :
        \A h \in OpsOf(canvas, "activity", "text") :
            (h < k /\ canvas[h].item # <<"heading">>)
                => /\ canvas[k].page = canvas[h].page
                   /\ canvas[h].y - ListLineH >= args.bottom_m + LowWater

(* C11, amended: the activity table is drawn in full, one line per entry in
   descending order of value; after a line that leaves the cursor less
   than 2 cm above the bottom margin the page is ended and the next entry
   is drawn at the top of a new page, otherwise one line height lower on
   the same page. *)
C11_TablePaginated ==
    ActivityOver =>
        LET n == Len(args.per_activity)
            low(o) == o.y - ListLineH < args.bottom_m + LowWater
        IN /\ Len(ActLines) = n
           /\ \A j \in 1..n :
                 \E r \in 1..n :
                     ActLines[r].item = <<"entry", args.per_activity[j].k,
                                          Fmt2(args.per_activity[j].v)>>
           /\ \A r \in 1..(n - 1) :
                 /\ ActLines[r].item[3] >= ActLines[r + 1].item[3]
                 /\ IF low(ActLines[r])
                    THEN /\ ActLines[r + 1].page = ActLines[r].page + 1
                         /\ ActLines[r + 1].y = Top
                    ELSE /\ ActLines[r + 1].page = ActLines[r].page
                         /\ ActLines[r + 1].y = ActLines[r].y - ListLineH

C11_Witness ==
    /\ ActivityOver /\ pc = "final"
    /\ Len(ActLines) = Len(args.per_activity)
    /\ ActLines[1].page < ActLines[Len(ActLines)].page

(* C12: with an empty (or missing) per-activity map the activity section
   draws nothing at all, takes no height and breaks no page: the step over
   the section leaves the canvas, the cursor, the page and the consumed
   height as they were, so that what comes before and the final flush are
   where they would be without the section. *)
C12_EmptyTableOmitted ==
    /\ [](args.per_activity = <<>> =>
            \A k \in 1..Len(canvas) : canvas[k].sec # "activity")
    /\ [][(pc = "activity" /\ args.per_activity = <<>> /\ pc' # "done")
            => /\ pc' = "final"
               /\ canvas' = canvas /\ y' = y /\ page' = page
               /\ fill' = fill /\ consumed' = consumed]_vars

C12_Witness ==
    /\ pc = "final" /\ Intact
    /\ args.per_activity = <<>>
    /\ args.per_category # <<>> /\ args.summary_lines > 0

(* C13: when logo bytes are given that cannot be decoded as an image, the
   header still draws the title text (once, and no logo image), and the
   call returns a document and no error. *)
C13_TitleDespiteBadLogo ==
    (args.logo_bytes = "garbage" /\ Intact /\ pc # "title")
    => /\ Cardinality({k \in OpsOf(canvas, "title", "text") :
                          canvas[k].item = <<"title">>}) = 1
       /\ OpsOf(canvas, "title", "image") = {}
       /\ pc = "done" =>
            /\ result.err = "" /\ result.bytes # NoneVal
            /\ Drawn(result.bytes[1], "title", "text", <<"title">>)

C13_Witness ==
    /\ pc = "done" /\ args.logo_bytes = "garbage"
    /\ result.bytes # NoneVal
    /\ Drawn(result.bytes[1], "title", "text", <<"title">>)

(* C14: whenever no logo image can be drawn, because no logo was given or
   because its bytes cannot be decoded, the header shows the fallback badge
   (the rounded rectangle and its initials) beside the title, whatever the
   theme colours are. *)
C14_BadgeWhenNoLogo ==
    (args.logo_bytes \in {"none", "garbage"} /\ Intact /\ pc # "title")
    => /\ Drawn(canvas, "title", "rect", <<"badge">>)
       /\ Drawn(canvas, "title", "text", <<"initials">>)
       /\ \E k \in OpsOf(canvas, "title", "text") :
              canvas[k].item = <<"title">> /\ canvas[k].x = left + TitleIndent

\* the grid row (from 0) the j-th chart belongs to when the grid is filled
\* row-major in Cols columns
RowOf(j) == (j - 1) \div Cols

(* C15: a row of the sparkline grid is atomic: the cells of one row are
   drawn on the same page at the same height; a page break inside the grid
   comes only before the first cell of a row; and after it the grid goes on
   from the top row of the new page, so that the cells on the new page lie
   in rows counted from the first cell drawn on it. *)
C15_RowsAtomic ==
    LET cells == OpsOf(canvas, "spark", "image")
        n(k) == canvas[k].item[2]
        firstOn(pg) == CHOOSE f \in cells :
                        /\ canvas[f].page = pg
                        /\ \A k \in cells : canvas[k].page = pg => f <= k
    IN /\ \A a, b \in cells :
             RowOf(n(a)) = RowOf(n(b))
                 => canvas[a].page = canvas[b].page /\ canvas[a].y = canvas[b].y
       /\ \A k \in cells :
             canvas[k - 1].op = "showPage" => (n(k) - 1) % Cols = 0
       /\ \A k \in cells :
             LET f == firstOn(canvas[k].page)
             IN canvas[f - 1].op = "showPage"
                 => canvas[k].y = Top - GridTopGap - CellH
                        - RowOf(n(k) - n(f) + 1) * (CellH + CellGap)

\* place of a section in the order the claim gives (the pie belongs to the
\* category section); 0 for page furniture (footers, showPage)
SecRank(sec) ==
    CASE sec = "title" -> 1
      [] sec = "meta" -> 2
      [] sec = "kpi" -> 3
      [] sec = "spark" -> 4
      [] sec = "summary" -> 5
      [] sec = "tip" -> 6
      [] sec \in {"category", "pie"} -> 7
      [] sec = "activity" -> 8
      [] OTHER -> 0

(* C16: the sections are drawn in the fixed order title/logo, meta line,
   KPIs, trend grid, summary, tip, category breakdown and pie, activity
   table, final footer: no operation of a later section precedes one of an
   earlier section on the canvas, and in the returned document nothing
   follows the final footer but the end of the last page. *)
C16_SectionOrder ==
    /\ LET content == SelectSeq(canvas, LAMBDA o : SecRank(o.sec) # 0)
       IN \A r \in 1..(Len(content) - 1) :
              SecRank(content[r].sec) <= SecRank(content[r + 1].sec)
    /\ (pc = "done" /\ result.bytes # NoneVal) =>
          LET doc == result.bytes[1]
              n == Len(doc)
          IN /\ doc[n].op = "showPage"
             /\ args.footer_text # "" =>
                   /\ doc[n - 1].sec = "footer" /\ doc[n - 2].sec = "footer"
                   /\ doc[n - 1].page = doc[n].page
             /\ \A k \in 1..n :
                   SecRank(doc[k].sec) # 0 => k < n - (IF args.footer_text # ""
                                                       THEN 2 ELSE 0)

C16_Witness ==
    /\ pc = "done" /\ result.bytes # NoneVal
    /\ args.footer_text # ""
    /\ \A sec \in {"title", "meta", "kpi", "spark", "summary", "tip",
                    "category", "pie", "activity", "footer"} :
          \E k \in 1..Len(canvas) : canvas[k].sec = sec

(* C17: two calls with the same arguments return the same bytes: whenever
   the second call has returned, with the same library calls failing as in
   the first, its result and the information written into the document are
   those of the first call, whatever the time between the calls. *)
C17_SameBytes ==
    (pc = "done" /\ first # NoneVal /\ first[1].faults = Returned.faults)
        => /\ first[1].result = result
           /\ first[1].info = stamp

\* the drawing operations alone do not depend on the time of the call
C17_SameDrawing ==
    (pc = "done" /\ first # NoneVal /\ first[1].faults = Returned.faults)
        => first[1].result = result

(* C18: two calls running in parallel share no state: under every
   interleaving of their chart steps each call ends with the images it
   produces when it runs alone. *)
C18_ParallelAsAlone ==
    \A p \in Procs : ppc[p] = "done" => imgs[p] = AloneImgs

(* C19: a run writes the history store only if the form was submitted,
   no input is invalid and at least one input is greater than 0, and then
   it shows "Saved."; a submitted run that fails these shows a warning in
   place of "Saved." and leaves the store as it was, and so does (with no
   message) every run that was not submitted. *)
C19_SaveOnlyValid ==
    [][LET d == session'.inputs
           ok == /\ last_event' = "submit"
                 /\ find_invalid_fields(d) = {}
                 /\ has_meaningful_input(d)
       IN /\ (history' # history \/ shown' = "Saved.") => ok
          /\ ok => /\ shown' = "Saved."
                   /\ RowsOf(history', selected_date) = {d}
          /\ (last_event' = "submit" /\ ~ok)
                => history' = history /\ shown' \in {"invalid", "empty"}
          /\ last_event' # "submit" => history' = history /\ shown' = ""
      ]_app

C19_Witness ==
    /\ last_event = "submit" /\ shown = "empty"
    /\ RowsOf(history, selected_date) # {}
    /\ session.inputs \notin RowsOf(history, selected_date)

(* C20: whenever the Demo mode checkbox goes from unchecked to checked,
   however it had been unchecked, the run takes a snapshot of the density
   and the inputs, queues the Compact density and the demo values, turns
   tips_autogen on and asks for a rerun; and the run that follows shows
   Compact with the demo values in their fields. *)
C20_DemoEntry ==
    /\ [][(~session.demo_mode /\ session'.demo_mode)
            => /\ session'.demo_snapshot =
                     Some([density |-> session'.density,
                           inputs |-> session.inputs])
               /\ session'.pending_density = Some("Compact")
               /\ session'.pending_values = Some(DemoVals)
               /\ session'.tips_autogen
               /\ rerun']_app
    /\ [][(rerun /\ session.demo_mode /\ last_event = "check")
            => /\ session'.density = "Compact"
               /\ session'.demo_mode
               /\ \A k \in DOMAIN DemoVals :
                      session'.inputs[k] = DemoVals[k]]_app

\* the same for the entries made while demo_mode_applied is off
C20_EntryWhenNotApplied ==
    [][(~session.demo_mode /\ session'.demo_mode
            /\ ~session.demo_mode_applied)
            => /\ session'.demo_snapshot =
                     Some([density |-> session'.density,
                           inputs |-> session.inputs])
               /\ session'.pending_density = Some("Compact")
               /\ session'.pending_values = Some(DemoVals)
               /\ session'.tips_autogen
               /\ rerun']_app

(* C21: entering demo mode and then pressing "Exit Demo Mode" is a round
   trip: in the run after the exit the input fields and the density are
   those the session had when the checkbox was ticked, demo mode is off,
   demo_mode_applied and tips_autogen are false and the snapshot is gone. *)
C21_ExitRoundTrip ==
    [][(rerun /\ last_event = "exit" /\ at_entry # NoneVal)
        => /\ session'.inputs = at_entry[1].inputs
           /\ session'.density = at_entry[1].density
           /\ ~session'.demo_mode
           /\ ~session'.demo_mode_applied
           /\ ~session'.tips_autogen
           /\ session'.demo_snapshot = NoneVal]_app

\* the same with the snapshot in place of the values at the last tick
C21_ExitRestoresSnapshot ==
    [][(last_event' = "exit" /\ session.demo_snapshot # NoneVal)
        => /\ session'.pending_values = Some(session.demo_snapshot[1].inputs)
           /\ session'.pending_density
                  = Some(session.demo_snapshot[1].density)
           /\ session'.pending_demo_off /\ rerun']_app

\* a step of the builder that breaks the page inside a section (the final
\* flush and the return through the handler are not page breaks)
PageBreakStep == page' # page /\ pc' # "done" /\ pc # "done"

\* the place in canvas' of the showPage the step has added
BreakAt == CHOOSE k \in (Len(canvas) + 1)..Len(canvas') :
               canvas'[k].op = "showPage"

\* the footer text and the page number are on the page being left, right
\* before its showPage
FooterOnLeftPage ==
    LET k == BreakAt
    IN /\ k > 2
       /\ canvas'[k - 2] = Op("text", "footer", <<"footer">>, left,
                              args.bottom_m - FooterDrop, 0, page,
                              canvas'[k - 2].fill)
       /\ canvas'[k - 1] = Op("text", "footer", <<"page", page>>, right,
                              args.bottom_m - FooterDrop, 0, page,
                              canvas'[k - 1].fill)

(* C22: every page break, in whichever section, draws the footer and the
   page number on the page being left, increases the page number by
   exactly one and resets the cursor to page_height - top_margin. *)
C22_PageBreak ==
    [][PageBreakStep
        => /\ page' = page + 1
           /\ canvas'[BreakAt].page = page
           /\ FooterOnLeftPage
           /\ y' = Top]_vars

(* C22, amended: every page break increases the page number by exactly one
   and ends the page being left, with the footer text and the page number
   drawn on it if and only if a footer text was given.  A break in the
   summary, tip, KPI or activity loop resets the cursor to page_height -
   top_margin; a break inside the sparkline grid leaves the cursor alone
   and puts the cell 1 cm below page_height - top_margin on the new page. *)
C22_PageBreakAsBuilt ==
    [][PageBreakStep
        => /\ page' = page + 1
           /\ canvas'[BreakAt].page = page
           /\ Pages(canvas') = Pages(canvas) + 1
           /\ IF args.footer_text # ""
              THEN FooterOnLeftPage
              ELSE \A k \in (Len(canvas) + 1)..Len(canvas') :
                       canvas'[k].sec # "footer"
           /\ IF pc = "spark_loop"
              THEN /\ y_img' = Top - GridTopGap
                   /\ canvas'[Len(canvas')].page = page + 1
                   /\ canvas'[Len(canvas')].y = Top - GridTopGap - CellH
                   /\ (pc' = "spark_loop" => y' = y)
              ELSE y' = Top]_vars

C22_Witness ==
    /\ page = 2 /\ pc = "summary_loop" /\ y = Top
    /\ args.footer_text # ""
    /\ \E k \in OpsOf(canvas, "footer", "text") :
          canvas[k].item = <<"page", 1>>

(* C23: every build that returns a document performs the final flush
   exactly once, after the last section: the step that returns the
   document starts where the activity section has ended, adds the footer
   and the end of the current page to the canvas and nothing else, and the
   document returned is that canvas; once the call has returned no
   operation follows. *)
C23_FinalFlushOnce ==
    /\ [][(pc' = "done" /\ result'.bytes # NoneVal)
            => /\ pc = "final" /\ result.bytes = NoneVal
               /\ canvas' = ShowPage(canvas, page, fill)
               /\ Pages(canvas') = Pages(canvas) + 1
               /\ canvas'[Len(canvas')].op = "showPage"
               /\ canvas'[Len(canvas')].page = page
               /\ result'.bytes = Some(canvas')]_vars
    /\ [][pc = "final" => pc' = "done"]_vars
    /\ [](pc = "done" => ~ENABLED Next)
    /\ []((pc = "final" /\ Intact)
            => \A sec \in {"summary", "tip"} :
                  Drawn(canvas, sec, "text", <<"heading">>))

C23_Witness ==
    /\ pc = "done" /\ result.bytes # NoneVal
    /\ Pages(result.bytes[1]) >= 2
    /\ OpsOf(result.bytes[1], "activity", "text") # {}

\* the body lines of a text block on the canvas, in drawing order
BlockLines(sec) ==
    SelectSeq(canvas, LAMBDA o : o.sec = sec /\ o.item # <<"heading">>)

\* the number of lines simpleSplit yields for the block's text
WrappedLines(sec) ==
    IF sec = "summary" THEN args.summary_lines ELSE args.tip_lines

BlockOver(sec) ==
    /\ Intact
    /\ IF sec = "summary"
       THEN pc \notin {"title", "meta", "kpi", "kpi_loop", "spark",
                       "spark_loop", "summary", "summary_loop"}
       ELSE pc \in {"category", "cat_loop", "pie", "activity", "act_loop",
                    "final", "done"}

(* C24: every line the wrapping yields for the summary text and for the
   tip text is drawn exactly once and in order, whatever page breaks occur
   inside the block: the body lines of the block on the canvas are the
   lines 1..n in this order, on pages that never go back, a line after a
   page break being the first of its page; empty text gives no body
   line. *)
C24_WrappedLinesOnce ==
    \A sec \in {"summary", "tip"} :
        BlockOver(sec) =>
            LET ls == BlockLines(sec)
            IN /\ Len(ls) = WrappedLines(sec)
               /\ \A r \in 1..Len(ls) : ls[r].item = <<"line", r>>
               /\ \A r \in 1..(Len(ls) - 1) :
                     \/ /\ ls[r + 1].page = ls[r].page
                        /\ ls[r + 1].y = ls[r].y - TextLineH
                     \/ /\ ls[r + 1].page = ls[r].page + 1
                        /\ ls[r + 1].y = Top

C24_Witness ==
    /\ BlockOver("summary") /\ pc = "tip"
    /\ args.summary_lines = MaxLines
    /\ BlockLines("summary")[MaxLines].page
           = BlockLines("summary")[1].page + 2

(* C25: when the pie image is drawn, its vertical extent lies inside the
   content area [bottom_margin, page_height - top_margin] and inside the
   span by which the step moves the cursor (between the cursor after the
   step and the cursor before it). *)
C25_PieInside ==
    [][(pc = "pie" /\ Len(canvas') > Len(canvas))
        => LET o == canvas'[Len(canvas')]
           IN /\ o.op = "image" /\ o.sec = "pie"
              /\ args.bottom_m <= o.y /\ o.y + o.h <= Top
              /\ y' <= o.y /\ o.y + o.h <= y]_vars

\* the width up to which simpleSplit fills a line of the summary or the
\* tip (lines 1377, 1389)
WrapWidth == PageWidth - WrapMargin

\* the right edge an operation can reach: a wrapped line filled to the wrap
\* width, a grid cell of width cell_w
RightEdge(o) ==
    IF o.op = "image" /\ o.sec = "spark" THEN o.x + CellW
    ELSE o.x + WrapWidth

(* C26: for every side margin in the allowed range all drawn content stays
   between the left and the right margin: no wrapped line of the summary
   or the tip and no cell of the sparkline grid begins left of the left
   margin or reaches beyond page_width - side_margin. *)
C26_InsideSideMargins ==
    \A k \in 1..Len(canvas) :
        ( \/ canvas[k].sec \in {"summary", "tip"}
               /\ canvas[k].item # <<"heading">>
          \/ canvas[k].sec = "spark" /\ canvas[k].op = "image" )
        => left <= canvas[k].x /\ RightEdge(canvas[k]) <= right

\* the same for side margins up to the default of 2 cm
C26_InsideUpToDefault ==
    args.side_m <= DefaultSide => C26_InsideSideMargins

\* the cells of the sparkline grid drawn on the current page
CellsOnPage ==
    { k \in 1..Len(canvas) :
        /\ canvas[k].sec = "spark" /\ canvas[k].op = "image"
        /\ canvas[k].page = page }

(* C27: when the sparkline grid section ends, normally, because a chart
   failed after some cells were drawn, or after a page break inside the
   grid, the cursor is below every cell drawn on the current page, so the
   summary that follows never overlaps a sparkline. *)
C27_CursorBelowGrid ==
    pc = "summary" => \A k \in CellsOnPage : y <= canvas[k].y

\* the same for a grid whose charts all rendered
C27_CursorBelowWholeGrid ==
    failed_chart = 0 => C27_CursorBelowGrid

\* the run started by the radio went to its end with the density picked:
\* the session's density is the other one and the URL carries it
PickedDensityKept ==
    /\ session'.density # session.density
    /\ url_density' = session'.density

(* C28: when the user picks a density with the radio, the run started by
   the pick uses the picked density and writes it to the URL parameter;
   the URL parameter written by the previous run never reverts the
   choice. *)
C28_RadioChoiceKept ==
    [][(ChooseDensity /\ ~rerun') => PickedDensityKept]_vars

\* the pick is undone whenever the URL carries the density being left
C28_RevertedByUrl ==
    [][(ChooseDensity /\ ~rerun' /\ url_density = session.density)
        => /\ session'.density = session.density
           /\ url_density' = session.density]_vars

\* one row per date, in the order of the dates
OneRowPerDateSorted(h) ==
    \A j, k \in 1..Len(h) : j < k => h[j].date < h[k].date

\* a step in which the run saved the submitted values
SaveStep == last_event' = "submit" /\ shown' = "Saved."

(* C29: save_entry is an upsert: from an empty store, after any sequence
   of save_entry calls the history holds exactly one row per saved date,
   sorted by date, and the row of the date just saved has the values of
   that save; a save for date d leaves the rows of all other dates
   unchanged, also when the existing file cannot be read. *)
C29_Upsert ==
    /\ []OneRowPerDateSorted(history)
    /\ [][SaveStep =>
            /\ RowsOf(history', selected_date) = {session'.inputs}
            /\ \A d \in Dates \ {selected_date} :
                  RowsOf(history', d) = RowsOf(history, d)]_vars

\* the part that holds also when the file cannot be read
C29_OneSortedRowLatest ==
    /\ []OneRowPerDateSorted(history)
    /\ [][SaveStep => RowsOf(history', selected_date) = {session'.inputs}]_vars

\* a save loses a row only by dropping every row of the other dates
C29_LossIsTotal ==
    [][(SaveStep /\ \E d \in Dates \ {selected_date} :
                        RowsOf(history', d) # RowsOf(history, d))
        => history' = <<[date |-> selected_date,
                         vals |-> session'.inputs]>>]_vars

\* how often the loop has done e
Times(e) == Cardinality({k \in 1..Len(effects) : effects[k] = e})

\* the parts of the claim on leaving the loop and on the assignment
TipAssignedOnce ==
    /\ <>(tpc = "out")
    /\ [](tpc = "out" => fut = "done")
    /\ [](Times("assign") <= 1)
    /\ [](tpc = "out" => Times("assign") = 1 /\ tip = Some(TipResult))
    /\ [](tpc # "out" => tip = NoneVal)
    /\ [](Times("spinner") <= 1)

(* C30: the tip polling loop terminates whenever the background
   generate_tip call terminates, leaves the loop only after the future has
   completed, assigns the tip from the future's result exactly once, and
   shows the spinner at most once and only if the threshold elapsed before
   the future completed. *)
C30_PollingLoop ==
    /\ TipAssignedOnce
    /\ []((Times("spinner") = 1 /\ fut = "done") => fut_at >= threshold)

(* C30 as built: the loop terminates whenever generate_tip returns, leaves
   the loop only after the future has completed, assigns the tip from the
   future's result exactly once, and shows the spinner at most once, and
   only when the clock read after a poll that found the future running is
   past the threshold. *)
C30_PollingLoopAsBuilt ==
    /\ TipAssignedOnce
    /\ [][(tpc # "clock" /\ tpc' = "clock") => fut = "running"]_vars
    /\ [][Times("spinner")' > Times("spinner")
            => tpc = "clock" /\ tnow > threshold]_vars

\* the spinner was displayed and the loop has been left
C30_Witness ==
    /\ tpc = "out" /\ effects = <<"spinner", "assign">>
    /\ fut_at < threshold

====
